---- MODULE Spec2Model ----
(***************************************************************************)
(* The RSS scan pipeline of readability-scanner (the Node.js service of    *)
(* src/unnamed/part_011): scanSingleSource with its per-item retry loop,   *)
(* parseAndSaveResponse with its replaceOne upsert into the documents      *)
(* collection, the ad-hoc /scan handler scanUrl, the cron job scanFeeds,   *)
(* and the handlers that manage the urls collection (addSource, /add-url,  *)
(* editSource, deleteSource, refreshSource).                               *)
(*                                                                         *)
(* Node runs one callback at a time, so every action below is the code     *)
(* that runs between two awaits.  The store applies one replaceOne call as *)
(* one step (the driver call at part_011:169 is the unit of interleaving). *)
(***************************************************************************)
EXTENDS Integers, Sequences, FiniteSets, TLC

---------------------------------------------------------------------------
(* Bounds of the model *)

\* handler invocations (scanSingleSource calls plus /scan requests) in a run
MaxCalls == 2

---------------------------------------------------------------------------
(* Program constants *)

maxAttempts == 2
StaggerMs == 100
StaggerBatch == 5
BackoffMs == 1000
RateLimitStepSecs == 5
MsPerSec == 1000

\* MAX_CONCURRENT_SCANS of the configuration: the documented limit on sources
\* scanned at the same time
MaxConcurrentScans == 5

\* the Retry-After value the extraction service sends when it sends one
RetryAfterSecs == 3

---------------------------------------------------------------------------
(* Inputs: source urls, feeds, article links, extraction responses *)

NoLink == "<no link>"
NoUrl == "<no url>"

\* strings handed to scanSingleSource; new URL() accepts the first three
Sources == {"http://feedA", "http://feedB", "http://feedE", "not a url", ""}

\* the source that a manual refresh and the cron scan share
RaceSource == "http://feedC"

\* one source more than the documented concurrency limit
MaxSources == MaxConcurrentScans + 1

\* sources whose feeds list no item
EmptySource(i) == "http://empty" \o ToString(i)

EmptySources == { EmptySource(i) : i \in 1..MaxSources }

\* a url that isLikelyAPI of addSource takes for an API endpoint
ApiUrl == "http://feedA/api/items.json"

\* a url whose document parses as a feed that has no title
UntitledSource == "http://feedN"

\* a source whose feed is longer than one stagger batch
LongSource == "http://feedL"

ValidUrl(u) ==
    u \in {"http://feedA", "http://feedB", "http://feedE", "http://feedC",
           ApiUrl, UntitledSource, LongSource} \cup EmptySources

\* testFeed.title of addSource
FeedTitle(u) == IF u = UntitledSource THEN "" ELSE "title of " \o u

Links == {"http://x/a", "http://x/b"}

FeedItem(t, l, d) == [title |-> t, link |-> l, pubDate |-> d]

\* what feedParser.parseURL returns for a source when the fetch and the parse
\* work: feedA and feedB list the same article, feedE lists nothing
Feed(u) ==
    CASE u = "http://feedA" -> << FeedItem("A1", "http://x/a", "d1"),
                                 FeedItem("A2", NoLink, "d2") >>
      [] u = "http://feedB" -> << FeedItem("B1", "http://x/a", "d3") >>
      [] u = "http://feedC" -> << FeedItem("C1", "http://x/a", "d4"),
                                 FeedItem("C2", NoLink, "d5"),
                                 FeedItem("C3", "http://x/b", "d6") >>
      [] u = "http://feedL" -> << FeedItem("L1", "http://x/a", "d7"),
                                 FeedItem("L2", "http://x/b", "d7"),
                                 FeedItem("L3", NoLink, "d7"),
                                 FeedItem("L4", NoLink, "d7"),
                                 FeedItem("L5", NoLink, "d7"),
                                 FeedItem("L6", "http://x/a", "d8") >>
      [] OTHER -> << >>

\* a response of the extraction service; status 0 with kind "error" is a fetch
\* that rejected (timeout after 30 s, connection refused)
Http(s, b, ra) == [kind |-> "http", status |-> s, body |-> b, retryAfter |-> ra]
NetErr == [kind |-> "error", status |-> 0, body |-> "none", retryAfter |-> 0]
OkArticle == Http(200, "article", 0)
OkEmpty == Http(200, "empty", 0)

\* 2xx whose json.content is markup without a word ("<p> </p>"): truthy, so it
\* passes the json.content check
OkBlank == Http(200, "blank", 0)

\* the responses a source scan is driven with: the code reads the status, the
\* retry-after header and, on 2xx, whether the JSON carries content
ScanResponses ==
    { NetErr, OkArticle, OkEmpty,
      Http(401, "text", 0), Http(403, "text", 0), Http(404, "text", 0),
      Http(429, "text", 0), Http(429, "text", RetryAfterSecs),
      Http(500, "text", 0) }

\* a non-2xx response whose body is the JSON of an extracted article
NotFoundArticle == Http(404, "article", 0)

\* the responses a source scan of the main specification is driven with
AllResponses == ScanResponses \cup {OkBlank, NotFoundArticle}

\* the responses an ad-hoc /scan is driven with: the code reads only the body
AdhocResponses ==
    { NetErr, OkArticle, OkEmpty, Http(500, "text", 0), Http(404, "empty", 0) }

\* a check that lets every status below 500 through
IsOkBelow500(r) == r.status >= 200 /\ r.status <= 499

IsOk(r) == r.status >= 200 /\ r.status <= 299

---------------------------------------------------------------------------
(* State *)

VARIABLES
    documents,  \* the documents collection, in insertion order
    scan,       \* per scanSingleSource call site: the promise and its items
    adhoc,      \* the /scan request being served
    clock,      \* handler invocations so far; new Date() reads it
    svc,        \* what the extraction service may answer for each link
    urls,       \* the urls collection (the sources), in insertion order
    mgmt,       \* the source-management request being served
    cron        \* the scanFeeds run

vars == << documents, scan, adhoc, clock, svc, urls, mgmt, cron >>

\* the call site of entry i of scanFeeds' urlList
FeedsId(i) == "feeds" \o ToString(i)

FeedsIds == { FeedsId(i) : i \in 1..MaxSources }

\* call sites of scanSingleSource: "auto" (a scan nobody waits for), "manual"
\* (refreshSource, which awaits it) and the entries of a scanFeeds run
ScanIds == {"auto", "manual"} \cup FeedsIds

---------------------------------------------------------------------------
(* Records with optional fields *)

Field(k, v) == k :> v

Drop(rec, k) == [f \in DOMAIN rec \ {k} |-> rec[f]]

Has(rec, k) == k \in DOMAIN rec

RECURSIVE SumOver(_, _)
SumOver(f, S) ==
    IF S = {} THEN 0
    ELSE LET x == CHOOSE y \in S : TRUE IN f[x] + SumOver(f, S \ {x})

---------------------------------------------------------------------------
(* documents collection *)

Matching(coll, u) == { n \in 1..Len(coll) : Has(coll[n], "url") /\ coll[n]["url"] = u }

First(S) == CHOOSE n \in S : \A m \in S : n <= m

\* collection.insertOne(doc): what an upsert without its filter would do
InsertOne(coll, u, doc) == Append(coll, doc)

\* collection.replaceOne(json, json, { upsert: true }): every field of the
\* document as the filter
ReplaceSame(coll, u, doc) ==
    IF \E n \in 1..Len(coll) : coll[n] = doc THEN coll ELSE Append(coll, doc)

\* collection.updateOne({url}, {$set: doc}, {upsert: true}): a field merge
MergeOne(coll, u, doc) ==
    IF Matching(coll, u) = {} THEN Append(coll, doc)
    ELSE [coll EXCEPT ![First(Matching(coll, u))] = doc @@ @]

\* collection.replaceOne({ url: json.url }, json, { upsert: true })
replaceOne(coll, u, doc) ==
    IF Matching(coll, u) = {} THEN Append(coll, doc)
    ELSE [coll EXCEPT ![First(Matching(coll, u))] = doc]

---------------------------------------------------------------------------
(* parseAndSaveResponse: the analysis part, up to the replaceOne call *)

\* the JSON of a 2xx response with content for a requested url
\* the page behind each link: one familiar word, or one unfamiliar word
Content(u) == IF u = "http://x/b" THEN "<p>rare</p>" ELSE "<p>text</p>"

ExtractedJson(u) == Field("url", u) @@ Field("content", Content(u))

\* the same with content that holds no word
ExtractedBlank(u) == Field("url", u) @@ Field("content", "<p> </p>")

\* striptags(...).replace(...).trim()
cleanedContent(content) ==
    CASE content = "<p>text</p>" -> "text"
      [] content = "<p>rare</p>" -> "rare"
      [] OTHER -> ""

\* countable.count: words and sentences of the cleaned text
CountWords(text) == IF text = "" THEN 0 ELSE 1

\* flesch({ sentence, word, syllable }) and the other formulas: a number, or
\* NaN when a count is 0 (the formulas return NaN, they do not throw)
Score(word) == IF word = 0 THEN "NaN" ELSE "number"

\* dale-chall-formula, in ten-thousandths: 0.1579 x percentage of difficult
\* words + 0.0496 x words per sentence, + 3.6365 when the percentage is over
\* 5; a count the caller leaves out is taken as 0
daleChall(sentence, word, difficultWord) ==
    IF sentence = 0 \/ word = 0 THEN "NaN"
    ELSE LET percentage == (difficultWord * 100) \div word
             score == 1579 * percentage + (496 * word) \div sentence
         IN  IF percentage > 5 THEN score + 36365 ELSE score

\* spache-formula, in thousandths: 0.121 x words per sentence + 0.082 x
\* percentage of unfamiliar words + 0.659
spache(word, sentence, unfamiliarWord) ==
    IF sentence = 0 \/ word = 0 THEN "NaN"
    ELSE (121 * word) \div sentence + 82 * ((unfamiliarWord * 100) \div word) + 659

\* the fields the analysis adds to json before it is stored; daleChall is
\* called with { sentence, word } and spache with { word, sentence }
Analysed(json, now) ==
    LET text == cleanedContent(json["content"]) IN
    Field("words", CountWords(text)) @@ Field("sentences", CountWords(text))
        @@ Field("Flesch", Score(CountWords(text)))
        @@ Field("Dale Chall", daleChall(CountWords(text), CountWords(text), 0))
        @@ Field("Spache", spache(CountWords(text), CountWords(text), 0))
        @@ Field("Cleaned Data", text) @@ Field("Host", "x") @@ Field("date", now)
        @@ json

\* scanSingleSource annotates json before parseAndSaveResponse
Annotated(json, fi, sourceUrl) ==
    Field("publication date", fi.pubDate) @@ Field("title", fi.title)
        @@ Field("origin", sourceUrl) @@ json

---------------------------------------------------------------------------
(* scanSingleSource: one feed item's unit of work *)

NoJson == [none |-> TRUE]

\* pc: "stagger" (timer before the first request), "inflight" (fetch pending),
\* "backoff" (timer before the next step), "saving" (parseAndSaveResponse
\* pending), "done" (the item's promise resolved with ret)
Item(pc, wait, next) ==
    [ pc |-> pc, attempts |-> 0, reqs |-> 0, hist |-> << >>, wait |-> wait,
      next |-> next, json |-> NoJson, ret |-> FALSE,
      saved |-> FALSE,   \* history: this item's replaceOne resolved
      rejects |-> 0,     \* history: parseAndSaveResponse rejections seen
      counted |-> 0 ]    \* history: failureStats increments made for this item

\* fetch('http://readability:3000', ...) is called
Issue(it) == [it EXCEPT !.pc = "inflight", !.reqs = @ + 1, !.wait = 0, !.next = "none"]

\* return false / return true out of the item's async function
Return(it, v) == [it EXCEPT !.pc = "done", !.ret = v, !.wait = 0, !.next = "none",
                            !.json = NoJson]

\* the loop going on without the await setTimeout
NoSleep(it, ms, next) == [it EXCEPT !.pc = "backoff", !.wait = 0, !.next = next,
                                    !.json = NoJson]

Sleep(it, ms, next) == [it EXCEPT !.pc = "backoff", !.wait = ms, !.next = next,
                                  !.json = NoJson]

\* the catch with its limit off by one: attempts > maxAttempts
CatchOffByOne(it) ==
    LET a == it.attempts + 1 IN
    IF a > maxAttempts
    THEN Return([it EXCEPT !.attempts = a], FALSE)
    ELSE Sleep([it EXCEPT !.attempts = a], BackoffMs * a, "fetch")

\* a catch that neither rethrows nor loops: the item's promise stays pending
CatchHangs(it) == [it EXCEPT !.pc = "hung", !.attempts = @ + 1]

\* catch (requestError): count the attempt, rethrow at maxAttempts (the item's
\* outer catch then returns false), else wait 1000 ms x attempts and loop
CatchRequestError(it) ==
    LET a == it.attempts + 1 IN
    IF a >= maxAttempts
    THEN Return([it EXCEPT !.attempts = a], FALSE)
    ELSE Sleep([it EXCEPT !.attempts = a], BackoffMs * a, "fetch")

\* the stagger delay taken per item: 100 ms x index
StartItemPerItem(fi, index) ==
    IF fi.link = NoLink THEN Return(Item("done", 0, "none"), FALSE)
    ELSE IF index > 0
         THEN Item("stagger", StaggerMs * index, "fetch")
         ELSE Issue(Item("inflight", 0, "none"))

\* the first synchronous stretch of the item's function, index counted from 0
StartItem(fi, index) ==
    IF fi.link = NoLink THEN Return(Item("done", 0, "none"), FALSE)
    ELSE IF index > 0
         THEN Item("stagger", StaggerMs * (index \div StaggerBatch), "fetch")
         ELSE Issue(Item("inflight", 0, "none"))

failureStats0 ==
    [ http500 |-> 0, http403 |-> 0, http429 |-> 0, timeout |-> 0, noContent |-> 0,
      other |-> 0 ]

Bump(st, k) == [st EXCEPT ![k] = @ + 1]

Total(st) == SumOver(st, DOMAIN st)

\* response.headers.get('retry-after') || (attempts * 5), in seconds
RetryAfter(r, attempts) ==
    IF r.retryAfter # 0 THEN r.retryAfter ELSE attempts * RateLimitStepSecs

\* the status branches with 429 treated as final: counted, item given up
NotOkGivesUpOn429(it, st, r) ==
    IF r.status >= 500 /\ it.attempts < maxAttempts - 1
    THEN [ item |-> Sleep([it EXCEPT !.attempts = @ + 1],
                          BackoffMs * (it.attempts + 1), "fetch"),
           stats |-> st ]
    ELSE IF r.status = 429
    THEN [ item |-> Return(it, FALSE), stats |-> Bump(st, "http429") ]
    ELSE IF r.status = 403 \/ r.status = 401
    THEN [ item |-> CatchRequestError(it), stats |-> Bump(st, "http403") ]
    ELSE IF r.status >= 500
    THEN [ item |-> CatchRequestError(it), stats |-> Bump(st, "http500") ]
    ELSE [ item |-> CatchRequestError(it), stats |-> Bump(st, "other") ]

\* if (!response.ok) { ... }: the status branches
NotOk(it, st, r) ==
    IF r.status >= 500 /\ it.attempts < maxAttempts - 1
    THEN [ item |-> Sleep([it EXCEPT !.attempts = @ + 1],
                          BackoffMs * (it.attempts + 1), "fetch"),
           stats |-> st ]
    ELSE IF r.status = 429
    THEN [ item |-> Sleep(it, RetryAfter(r, it.attempts) * MsPerSec,
                          IF it.attempts < maxAttempts - 1 THEN "retry" ELSE "json"),
           stats |-> Bump(st, "http429") ]
    ELSE IF r.status = 403 \/ r.status = 401
    THEN [ item |-> CatchRequestError(it), stats |-> Bump(st, "http403") ]
    ELSE IF r.status >= 500
    THEN [ item |-> CatchRequestError(it), stats |-> Bump(st, "http500") ]
    ELSE [ item |-> CatchRequestError(it), stats |-> Bump(st, "other") ]

\* the loop body without the json.content check: whatever a 2xx carries is
\* analysed and saved
OnResponseNoContentCheck(it0, st, r, fi, sourceUrl, now) ==
    LET it == [it0 EXCEPT !.hist = Append(@, r)] IN
    IF r.kind = "error" THEN [ item |-> CatchRequestError(it), stats |-> st ]
    ELSE IF ~IsOk(r) THEN NotOk(it, st, r)
    ELSE IF r.body = "article"
    THEN [ item |-> [it EXCEPT !.pc = "saving",
                       !.json = Analysed(Annotated(ExtractedJson(fi.link), fi, sourceUrl), now)],
           stats |-> st ]
    ELSE IF r.body \in {"blank", "empty"}
    THEN [ item |-> [it EXCEPT !.pc = "saving",
                       !.json = Analysed(Annotated(ExtractedBlank(fi.link), fi, sourceUrl), now)],
           stats |-> st ]
    ELSE [ item |-> CatchRequestError(it), stats |-> st ]

\* the body of the while loop from the settled fetch to the next await
OnResponse(it0, st, r, fi, sourceUrl, now) ==
    LET it == [it0 EXCEPT !.hist = Append(@, r)] IN
    IF r.kind = "error" THEN [ item |-> CatchRequestError(it), stats |-> st ]
    ELSE IF ~IsOk(r) THEN NotOk(it, st, r)
    ELSE IF r.body = "article"
    THEN [ item |-> [it EXCEPT !.pc = "saving",
                       !.json = Analysed(Annotated(ExtractedJson(fi.link), fi, sourceUrl), now)],
           stats |-> st ]
    ELSE IF r.body = "blank"
    THEN [ item |-> [it EXCEPT !.pc = "saving",
                       !.json = Analysed(Annotated(ExtractedBlank(fi.link), fi, sourceUrl), now)],
           stats |-> st ]
    ELSE IF r.body = "empty"
    THEN [ item |-> Return(it, FALSE), stats |-> Bump(st, "noContent") ]
    ELSE [ item |-> CatchRequestError(it), stats |-> st ]

\* a timer of the item fires
OnTimer(it) ==
    CASE it.next = "fetch" -> Issue(it)
      [] it.next = "retry" -> Issue([it EXCEPT !.attempts = @ + 1])
      [] it.next = "json" -> CatchRequestError(it)

---------------------------------------------------------------------------
(* scanSingleSource: the promise it returns *)

NoResult == [none |-> TRUE]

\* pc: "idle" (no call yet), "parsing" (feedParser.parseURL pending), "items"
\* (Promise.all over the items pending), "resolved", "rejected"
IdleScan ==
    [ pc |-> "idle", source |-> "", items |-> << >>, feed |-> << >>,
      stats |-> failureStats0, result |-> NoResult,
      fetches |-> 0,       \* history: feedParser.parseURL calls
      parsed |-> "no",     \* history: "no", "ok" or "failed"
      overlapped |-> FALSE ]  \* history: another scan was running at the call

Settle(sc, how, res) == [sc EXCEPT !.pc = how, !.result = res]

\* resolve({ scanned: 0, total: 0, source: sourceUrl, error: ... })
ResolveError(sc, msg) ==
    Settle(sc, "resolved",
           [scanned |-> 0, total |-> 0, source |-> sc.source, error |-> msg])

\* resolve({ scanned: 0, total: 0, source: sourceUrl })
ResolveEmpty(sc) ==
    Settle([sc EXCEPT !.parsed = "ok"], "resolved",
           [scanned |-> 0, total |-> 0, source |-> sc.source])

\* the call without the new URL(sourceUrl) check
ValidateSkipped(sc) == [sc EXCEPT !.pc = "parsing", !.fetches = @ + 1]

\* the call itself: new URL(sourceUrl), then feedParser.parseURL(sourceUrl)
Validate(sc) ==
    IF ~ValidUrl(sc.source) THEN ResolveError(sc, "Invalid URL format")
    ELSE [sc EXCEPT !.pc = "parsing", !.fetches = @ + 1]

\* the outer catch calling reject(error) instead of resolve
OuterCatchRejects(sc, msg) == Settle([sc EXCEPT !.parsed = "failed"], "rejected", NoResult)

\* catch (error) around the whole scan
OuterCatch(sc, msg) == ResolveError([sc EXCEPT !.parsed = "failed"], msg)

\* feedData.items.map(async (article, index) => ...): every item runs to its
\* first await
FanOut(sc, items) ==
    [sc EXCEPT !.pc = "items", !.feed = items, !.parsed = "ok",
               !.items = [i \in 1..Len(items) |-> StartItem(items[i], i - 1)]]

\* results.length: every settled item counted
successCountAll(items) == Len(items)

successCount(items) == Cardinality({ i \in 1..Len(items) : items[i].ret })

\* results.filter(Boolean).length and the resolve that follows
Aggregate(sc) ==
    LET n == successCount(sc.items) IN
    Settle(sc, "resolved",
           [ scanned |-> n, total |-> Len(sc.feed), failed |-> Len(sc.feed) - n,
             source |-> sc.source ])

---------------------------------------------------------------------------
(* Actions of scanSingleSource *)

Running(k) == scan[k].pc \in {"parsing", "items"}

ItemsOf(k) == 1..Len(scan[k].items)

\* scanSingleSource(u) is called at call site k
ScanStart(k, u) ==
    /\ ~Running(k)
    /\ clock < MaxCalls
    /\ clock' = clock + 1
    /\ scan' = [scan EXCEPT ![k] =
                  Validate([IdleScan EXCEPT !.source = u,
                              !.overlapped = \E j \in ScanIds \ {k} : Running(j)])]
    /\ UNCHANGED << documents, adhoc, svc, urls, mgmt, cron >>

\* feedParser.parseURL rejects: unreachable host, HTTP error, not a feed
FeedFails(k) ==
    /\ scan[k].pc = "parsing"
    /\ scan' = [scan EXCEPT ![k] = OuterCatch(@, "feed error")]
    /\ UNCHANGED << documents, adhoc, clock, svc, urls, mgmt, cron >>

\* feedParser.parseURL resolves
FeedParsed(k) ==
    /\ scan[k].pc = "parsing"
    /\ LET items == Feed(scan[k].source) IN
       scan' = [scan EXCEPT ![k] =
                  IF Len(items) = 0 THEN ResolveEmpty(@) ELSE FanOut(@, items)]
    /\ UNCHANGED << documents, adhoc, clock, svc, urls, mgmt, cron >>

\* a setTimeout of item i fires (stagger delay or backoff)
ItemTimer(k, i) ==
    /\ scan[k].pc = "items"
    /\ i \in 1..Len(scan[k].items)
    /\ scan[k].items[i].pc \in {"stagger", "backoff"}
    /\ scan' = [scan EXCEPT ![k].items[i] = OnTimer(@)]
    /\ UNCHANGED << documents, adhoc, clock, svc, urls, mgmt, cron >>

\* the pending fetch of item i settles with r
ItemResponse(k, i, r) ==
    /\ scan[k].pc = "items"
    /\ i \in 1..Len(scan[k].items)
    /\ scan[k].items[i].pc = "inflight"
    /\ r \in svc[scan[k].feed[i].link]
    /\ LET o == OnResponse(scan[k].items[i], scan[k].stats, r, scan[k].feed[i],
                           scan[k].source, clock) IN
       scan' = [scan EXCEPT ![k].items[i] =
                                [o.item EXCEPT !.counted =
                                    @ + Total(o.stats) - Total(scan[k].stats)],
                            ![k].stats = o.stats]
    /\ UNCHANGED << documents, adhoc, clock, svc, urls, mgmt, cron >>

\* replaceOne resolves: parseAndSaveResponse resolves and the item returns true
ItemSaved(k, i) ==
    /\ scan[k].pc = "items"
    /\ i \in 1..Len(scan[k].items)
    /\ scan[k].items[i].pc = "saving"
    /\ documents' = replaceOne(documents, scan[k].items[i].json["url"],
                               scan[k].items[i].json)
    /\ scan' = [scan EXCEPT ![k].items[i] = Return([@ EXCEPT !.saved = TRUE], TRUE)]
    /\ UNCHANGED << adhoc, clock, svc, urls, mgmt, cron >>

\* the analysis throws (reject(analysisError)): nothing reaches the store
ItemAnalysisFails(k, i) ==
    /\ scan[k].pc = "items"
    /\ i \in 1..Len(scan[k].items)
    /\ scan[k].items[i].pc = "saving"
    /\ scan' = [scan EXCEPT ![k].items[i] =
                  CatchRequestError([@ EXCEPT !.rejects = @ + 1])]
    /\ UNCHANGED << documents, adhoc, clock, svc, urls, mgmt, cron >>

\* connection or replaceOne rejects: reject(err), the document is not written
ItemSaveFails(k, i) ==
    /\ scan[k].pc = "items"
    /\ i \in 1..Len(scan[k].items)
    /\ scan[k].items[i].pc = "saving"
    /\ scan' = [scan EXCEPT ![k].items[i] =
                  CatchRequestError([@ EXCEPT !.rejects = @ + 1])]
    /\ UNCHANGED << documents, adhoc, clock, svc, urls, mgmt, cron >>

\* Promise.all(scanPromises) resolves: aggregation and resolve
ScanFinish(k) ==
    /\ scan[k].pc = "items"
    /\ \A i \in 1..Len(scan[k].items) : scan[k].items[i].pc = "done"
    /\ scan' = [scan EXCEPT ![k] = Aggregate(@)]
    /\ UNCHANGED << documents, adhoc, clock, svc, urls, mgmt, cron >>

---------------------------------------------------------------------------
(* scanUrl: the ad-hoc /scan handler *)

\* pc: "idle", "inflight" (fetch pending), "saving" (parseAndSaveResponse
\* pending), "done" (no callback of the request is left to run)
IdleAdhoc ==
    [ pc |-> "idle", url |-> NoUrl, sends |-> 0, status |-> 0, promise |-> "pending",
      json |-> NoJson ]

\* res.status(code).send(...): the first call writes the response
ResSend(a, code) ==
    [a EXCEPT !.sends = @ + 1, !.status = IF a.sends = 0 THEN code ELSE @]

\* resolve / reject of the promise scanUrl returns: the first one wins
SettleAdhoc(a, how) == [a EXCEPT !.promise = IF @ = "pending" THEN how ELSE @]

\* the synchronous start: the 404 branch has no return, the fetch follows
StartUrl(u) ==
    LET a == [IdleAdhoc EXCEPT !.pc = "inflight", !.url = u] IN
    IF u = NoUrl THEN SettleAdhoc(ResSend(a, 404), "rejected") ELSE a

\* .catch(err => res.status(500).send(err)); a send after the response was
\* written throws, and inside the catch nothing handles it
UrlCatch(a) == [ResSend(a, 500) EXCEPT !.pc = "done", !.json = NoJson]

\* .then(res => res.json()).then(json => ...): the status is not looked at
UrlResponse(a, r, now) ==
    IF r.kind = "error" \/ r.body = "text" THEN UrlCatch(a)
    ELSE IF r.body = "article"
    THEN [a EXCEPT !.pc = "saving",
                   !.json = IF a.url = NoUrl THEN NoJson
                            ELSE Analysed(ExtractedJson(a.url), now)]
    ELSE IF a.sends = 0
    THEN [SettleAdhoc(ResSend(a, 200), "rejected") EXCEPT !.pc = "done"]
    ELSE UrlCatch(ResSend(a, 200))

\* parseAndSaveResponse(json).then(response => { res.send; resolve })
UrlSaved(a) ==
    [SettleAdhoc(ResSend(a, 200), "resolved") EXCEPT !.pc = "done", !.json = NoJson]

\* parseAndSaveResponse(json) rejects: the chain has no handler for it
UrlSaveRejected(a) == [a EXCEPT !.pc = "done", !.json = NoJson]

AdhocStart(u) ==
    /\ adhoc.pc \in {"idle", "done"}
    /\ clock < MaxCalls
    /\ clock' = clock + 1
    /\ adhoc' = StartUrl(u)
    /\ UNCHANGED << documents, scan, svc, urls, mgmt, cron >>

AdhocResponse(r) ==
    /\ adhoc.pc = "inflight"
    /\ adhoc' = UrlResponse(adhoc, r, clock)
    /\ UNCHANGED << documents, scan, clock, svc, urls, mgmt, cron >>

\* the analysis went through and replaceOne resolves
AdhocSaved ==
    /\ adhoc.pc = "saving"
    /\ adhoc.json # NoJson
    /\ documents' = replaceOne(documents, adhoc.json["url"], adhoc.json)
    /\ adhoc' = UrlSaved(adhoc)
    /\ UNCHANGED << scan, clock, svc, urls, mgmt, cron >>

\* new URL(json.url) or another analysis step throws
AdhocAnalysisFails ==
    /\ adhoc.pc = "saving"
    /\ adhoc' = UrlSaveRejected(adhoc)
    /\ UNCHANGED << documents, scan, clock, svc, urls, mgmt, cron >>

\* connection or replaceOne rejects
AdhocSaveFails ==
    /\ adhoc.pc = "saving"
    /\ adhoc.json # NoJson
    /\ adhoc' = UrlSaveRejected(adhoc)
    /\ UNCHANGED << documents, scan, clock, svc, urls, mgmt, cron >>

---------------------------------------------------------------------------
(* urls collection: the sources *)

\* new URL(url).hostname
hostname(u) == "host of " \o u

\* sourceData of addSource
SourceData(u, name, now) ==
    [ url |-> u, name |-> IF name = "" THEN hostname(u) ELSE name,
      description |-> "", dateAdded |-> now ]

\* a stored document: the server adds _id on insert
Stored(id, data) == Field("_id", id) @@ data

\* the collection with a validated source behind an unvalidated one (a url
\* that /add-url stored as it came)
BadThenGood ==
    << Stored(1, Field("url", "not a url")),
       Stored(2, SourceData(RaceSource, "", 0)) >>

\* two sources whose feeds list the same article url
SharedArticle ==
    << Stored(1, SourceData("http://feedA", "", 0)),
       Stored(2, SourceData("http://feedB", "", 0)) >>

\* the collection with one source more than the documented limit
ManyEmpty == [ i \in 1..MaxSources |-> Stored(i, Field("url", EmptySource(i))) ]

\* the sources an earlier session added through addSource
SeedSources ==
    << Stored(1, SourceData("http://feedB", "", 0)),
       Stored(2, SourceData("http://feedE", "second", 0)) >>

\* the _id the server gives a document inserted by the request made at now
ObjectId(now) == Len(SeedSources) + now

ById(coll, id) == { n \in 1..Len(coll) : coll[n]["_id"] = id }

\* collection.replaceOne({ url }, data, { upsert: true }): the matched document
\* keeps its _id and nothing else
replaceSource(coll, u, data, id) ==
    IF Matching(coll, u) = {} THEN Append(coll, Stored(id, data))
    ELSE [coll EXCEPT ![First(Matching(coll, u))] = Stored(@["_id"], data)]

\* collection.updateOne({ _id }, { $set: set })
updateOne(coll, id, set) ==
    IF ById(coll, id) = {} THEN coll
    ELSE [coll EXCEPT ![First(ById(coll, id))] = set @@ @]

\* collection.deleteOne({ _id })
deleteOne(coll, id) ==
    IF ById(coll, id) = {} THEN coll
    ELSE LET n == First(ById(coll, id)) IN
         SubSeq(coll, 1, n - 1) \o SubSeq(coll, n + 1, Len(coll))

---------------------------------------------------------------------------
(* scanFeeds: one run of the cron job *)

\* pc: "idle" (never ran), "scanning" (Promise.all over urlList pending),
\* "done" (the async function returned)
IdleCron ==
    [ pc |-> "idle", urlList |-> << >>,
      threw |-> FALSE,       \* the promise of scanFeeds rejected
      loaded |-> FALSE,      \* history: find({}).toArray() resolved in this run
      runs |-> 0,            \* history: runs started
      before |-> << >>,      \* history: the documents collection at the start
      clean |-> TRUE,        \* history: the run that ended last saw no failure
      prevClean |-> TRUE ]   \* history: so did the run before it

\* urls.map(({ url }) => url)
urlListOf(coll) == [ n \in 1..Len(coll) |-> coll[n]["url"] ]

EntryOf(k, list) == CHOOSE i \in 1..Len(list) : FeedsId(i) = k

\* scanSingleSource(url) as called at a call site
CallScan(u, overlapped) ==
    Validate([IdleScan EXCEPT !.source = u, !.overlapped = overlapped])

\* a loop that gives up at the first url it cannot scan
StartUntilInvalid(sc, list) ==
    [ k \in DOMAIN sc |->
        IF k \in { FeedsId(i) : i \in 1..Len(list) }
        THEN IF \A j \in 1..EntryOf(k, list) : ValidUrl(list[j])
             THEN CallScan(list[EntryOf(k, list)], Len(list) > 1)
             ELSE IdleScan
        ELSE sc[k] ]

\* urlList.map(async (url) => { ... await scanSingleSource(url) ... }): every
\* entry runs to its await, so every scan is started in the same turn
StartAll(sc, list) ==
    [ k \in DOMAIN sc |->
        IF k \in { FeedsId(i) : i \in 1..Len(list) }
        THEN CallScan(list[EntryOf(k, list)], Len(list) > 1)
        ELSE sc[k] ]

Entries == { FeedsId(i) : i \in 1..Len(cron.urlList) }

\* no failure that is not an extraction result: feed fetched, nothing rejected
CleanScan(sc) ==
    /\ sc.parsed # "failed"
    /\ \A i \in 1..Len(sc.items) : sc.items[i].rejects = 0

\* cron.schedule fires (or startCron calls scanFeeds) and find() resolves
CronStart ==
    /\ cron.pc \in {"idle", "done"}
    /\ clock < MaxCalls
    /\ clock' = clock + 1
    /\ LET list == urlListOf(urls) IN
       /\ cron' = [cron EXCEPT !.pc = IF Len(list) = 0 THEN "done" ELSE "scanning",
                               !.urlList = list, !.loaded = TRUE, !.runs = @ + 1,
                               !.before = documents, !.prevClean = cron.clean]
       /\ scan' = StartAll(scan, list)
    /\ UNCHANGED << documents, adhoc, svc, urls, mgmt >>

\* connection or find() rejects: the outer catch logs it, nothing is scanned
CronLoadFails ==
    /\ cron.pc \in {"idle", "done"}
    /\ clock < MaxCalls
    /\ clock' = clock + 1
    /\ cron' = [cron EXCEPT !.pc = "done", !.urlList = << >>, !.loaded = FALSE,
                            !.runs = @ + 1, !.before = documents, !.clean = FALSE,
                            !.prevClean = cron.clean]
    /\ UNCHANGED << documents, scan, adhoc, svc, urls, mgmt >>

\* every entry's await settled (a rejection is caught per entry): Promise.all
\* resolves and scanFeeds returns
CronFinish ==
    /\ cron.pc = "scanning"
    /\ \A k \in Entries : scan[k].pc \in {"resolved", "rejected"}
    /\ cron' = [cron EXCEPT !.pc = "done",
                            !.clean = \A k \in Entries : CleanScan(scan[k])]
    /\ UNCHANGED << documents, scan, adhoc, clock, svc, urls, mgmt >>

---------------------------------------------------------------------------
(* Source management: addSource, /add-url, editSource, deleteSource,
   refreshSource.  One request is served at a time. *)

NoData == [none |-> TRUE]

\* pc: "idle", "validating" (addSource: feedParser.parseURL pending), "storing"
\* (addSource: replaceOne pending), "updating" (editSource: updateOne
\* pending), "scanning" (refreshSource: scanSingleSource pending), "done"
\* (response sent)
IdleMgmt ==
    [ pc |-> "idle", op |-> "none", id |-> 0, url |-> NoUrl, name |-> "",
      data |-> NoData, status |-> 0,
      body |-> NoData,   \* what res.json was given
      scans |-> 0 ]      \* history: scanSingleSource calls the request made

Request(op, id, u, name) ==
    [IdleMgmt EXCEPT !.pc = "pending", !.op = op, !.id = id, !.url = u, !.name = name]

\* res.status(code).send / res.redirect / res.json: the request is over
Respond(q, code) == [q EXCEPT !.pc = "done", !.status = code, !.data = NoData]

\* urlLower.includes('/api/') || urlLower.includes('json') || ...
isLikelyAPI(u) == u = ApiUrl

\* addSource up to await feedParser.parseURL(url)
AddChecked(q) ==
    IF q.url = NoUrl THEN Respond(q, 400)
    ELSE IF ~ValidUrl(q.url) THEN Respond(q, 400)
    ELSE IF isLikelyAPI(q.url) THEN Respond(q, 400)
    ELSE [q EXCEPT !.pc = "validating"]

\* updateData of editSource; new URL(url) throws on a malformed url when no
\* name came with the request
CanUpdate(q) == q.name # "" \/ ValidUrl(q.url)

updateData(q, now) ==
    [ url |-> q.url, name |-> IF q.name = "" THEN hostname(q.url) ELSE q.name,
      description |-> "", lastModified |-> now ]

MgmtFree == mgmt.pc \in {"idle", "done"}

\* POST /sources/add arrives
AddStart(u, name) ==
    /\ MgmtFree /\ ~Running("auto")
    /\ clock < MaxCalls
    /\ clock' = clock + 1
    /\ mgmt' = AddChecked(Request("add", 0, u, name))
    /\ UNCHANGED << documents, scan, adhoc, svc, urls, cron >>

\* the test fetch of the feed rejects
AddFeedFails ==
    /\ mgmt.pc = "validating"
    /\ mgmt' = Respond(mgmt, 400)
    /\ UNCHANGED << documents, scan, adhoc, clock, svc, urls, cron >>

\* the test fetch resolves: title check, sourceData, replaceOne called
AddFeedParsed ==
    /\ mgmt.pc = "validating"
    /\ mgmt' = IF FeedTitle(mgmt.url) = ""
               THEN Respond(mgmt, 400)
               ELSE [mgmt EXCEPT !.pc = "storing",
                                 !.data = SourceData(mgmt.url, mgmt.name, clock)]
    /\ UNCHANGED << documents, scan, adhoc, clock, svc, urls, cron >>

\* replaceOne resolves: the scan of the new source is started, then redirect
AddStored ==
    /\ mgmt.pc = "storing"
    /\ urls' = replaceSource(urls, mgmt.url, mgmt.data, ObjectId(clock))
    /\ scan' = [scan EXCEPT !["auto"] = CallScan(mgmt.url, Running("manual"))]
    /\ mgmt' = Respond([mgmt EXCEPT !.scans = @ + 1], 302)
    /\ UNCHANGED << documents, adhoc, clock, svc, cron >>

\* connection or replaceOne rejects: the catch answers 500
AddStoreFails ==
    /\ mgmt.pc = "storing"
    /\ mgmt' = Respond(mgmt, 500)
    /\ UNCHANGED << documents, scan, adhoc, clock, svc, urls, cron >>

\* GET /add-url: replaceOne(content, content, { upsert: true }), content = { url }
AddUrl(u) ==
    /\ MgmtFree
    /\ clock < MaxCalls
    /\ clock' = clock + 1
    /\ urls' = replaceSource(urls, u, Field("url", u), ObjectId(clock'))
    /\ mgmt' = Respond(Request("add-url", 0, u, ""), 200)
    /\ UNCHANGED << documents, scan, adhoc, svc, cron >>

\* POST /sources/edit/:id arrives: findOne, updateData, updateOne called
EditStart(id, u, name) ==
    /\ MgmtFree /\ ~Running("auto")
    /\ clock < MaxCalls
    /\ clock' = clock + 1
    /\ LET q == Request("edit", id, u, name) IN
       mgmt' = IF u = NoUrl THEN Respond(q, 400)
               ELSE IF ~CanUpdate(q) THEN Respond(q, 500)
               ELSE [q EXCEPT !.pc = "updating", !.data = updateData(q, clock')]
    /\ UNCHANGED << documents, scan, adhoc, svc, urls, cron >>

\* updateOne resolves: the scan of the edited url is started, then redirect
EditUpdated ==
    /\ mgmt.pc = "updating"
    /\ urls' = updateOne(urls, mgmt.id, mgmt.data)
    /\ scan' = [scan EXCEPT !["auto"] = CallScan(mgmt.url, Running("manual"))]
    /\ mgmt' = Respond([mgmt EXCEPT !.scans = @ + 1], 302)
    /\ UNCHANGED << documents, adhoc, clock, svc, cron >>

\* POST /sources/delete/:id
DeleteSource(id) ==
    /\ MgmtFree
    /\ clock < MaxCalls
    /\ clock' = clock + 1
    /\ urls' = deleteOne(urls, id)
    /\ mgmt' = Respond(Request("delete", id, NoUrl, ""), 302)
    /\ UNCHANGED << documents, scan, adhoc, svc, cron >>

\* deleteOne rejects: the catch answers 500
DeleteFails(id) ==
    /\ MgmtFree
    /\ clock < MaxCalls
    /\ clock' = clock + 1
    /\ mgmt' = Respond(Request("delete", id, NoUrl, ""), 500)
    /\ UNCHANGED << documents, scan, adhoc, svc, urls, cron >>

\* POST /sources/refresh/:id arrives: findOne, then await scanSingleSource
RefreshStart(id) ==
    /\ MgmtFree /\ ~Running("manual")
    /\ clock < MaxCalls
    /\ clock' = clock + 1
    /\ LET q == Request("refresh", id, NoUrl, "") IN
       IF ById(urls, id) = {}
       THEN /\ mgmt' = Respond(q, 404)
            /\ scan' = scan
       ELSE LET source == urls[First(ById(urls, id))] IN
            /\ mgmt' = [q EXCEPT !.pc = "scanning", !.url = source["url"], !.scans = 1]
            /\ scan' = [scan EXCEPT !["manual"] = CallScan(source["url"], Running("auto"))]
    /\ UNCHANGED << documents, adhoc, svc, urls, cron >>

\* result.failed || (result.total - result.scanned)
failedOf(result) ==
    IF Has(result, "failed") /\ result.failed # 0 THEN result.failed
    ELSE result.total - result.scanned

\* res.json({ success: true, result: { scanned, total, failed, ... } })
RefreshBody(result) ==
    [ success |-> TRUE, scanned |-> result.scanned, total |-> result.total,
      failed |-> failedOf(result) ]

\* the awaited scan resolved: updateOne sets lastRefreshed, then res.json
RefreshScanned ==
    /\ mgmt.pc = "scanning"
    /\ scan["manual"].pc = "resolved"
    /\ urls' = updateOne(urls, mgmt.id, Field("lastRefreshed", clock))
    /\ mgmt' = Respond([mgmt EXCEPT !.body = RefreshBody(scan["manual"].result)], 200)
    /\ UNCHANGED << documents, scan, adhoc, clock, svc, cron >>

\* updateOne of an edit or of a refresh rejects: the catch answers 500 and
\* nothing is written
StoreRejects ==
    /\ \/ mgmt.pc = "updating"
       \/ mgmt.pc = "scanning" /\ scan["manual"].pc = "resolved"
    /\ mgmt' = Respond(mgmt, 500)
    /\ UNCHANGED << documents, scan, adhoc, clock, svc, urls, cron >>

---------------------------------------------------------------------------
(* Specifications *)

AnyResponse == [l \in Links |-> AllResponses]

Init ==
    /\ documents = << >>
    /\ scan = [k \in ScanIds |-> IdleScan]
    /\ adhoc = IdleAdhoc
    /\ clock = 0
    /\ svc = AnyResponse
    /\ urls = << >>
    /\ mgmt = IdleMgmt
    /\ cron = IdleCron

\* source scans one after the other, with /scan requests in between and during
Next ==
    \/ \E u \in Sources : ScanStart("auto", u)
    \/ FeedFails("auto")
    \/ FeedParsed("auto")
    \/ \E i \in ItemsOf("auto") : ItemTimer("auto", i)
    \/ \E i \in ItemsOf("auto") : \E r \in AllResponses : ItemResponse("auto", i, r)
    \/ \E i \in ItemsOf("auto") : ItemSaved("auto", i)
    \/ \E i \in ItemsOf("auto") : ItemAnalysisFails("auto", i)
    \/ \E i \in ItemsOf("auto") : ItemSaveFails("auto", i)
    \/ ScanFinish("auto")
    \/ \E u \in Links \cup {NoUrl} : AdhocStart(u)
    \/ \E r \in AdhocResponses : AdhocResponse(r)
    \/ AdhocSaved
    \/ AdhocAnalysisFails
    \/ AdhocSaveFails

Spec == Init /\ [][Next]_vars

\* the extraction service answers every request for a link the same way
SameResponse == { f \in [Links -> SUBSET ScanResponses] :
                    \A l \in Links : Cardinality(f[l]) = 1 }

InitRace ==
    /\ documents = << >>
    /\ scan = [k \in ScanIds |-> IdleScan]
    /\ adhoc = IdleAdhoc
    /\ clock = 0
    /\ svc \in SameResponse
    /\ urls = << >>
    /\ mgmt = IdleMgmt
    /\ cron = IdleCron

\* the two call sites that race
RaceIds == {"auto", "manual"}

\* a manual refresh and the cron scan of the same source, in any interleaving
NextRace ==
    \/ \E k \in RaceIds : ScanStart(k, RaceSource)
    \/ \E k \in RaceIds : FeedFails(k)
    \/ \E k \in RaceIds : FeedParsed(k)
    \/ \E k \in RaceIds : \E i \in ItemsOf(k) : ItemTimer(k, i)
    \/ \E k \in RaceIds : \E i \in ItemsOf(k) : \E r \in ScanResponses :
          ItemResponse(k, i, r)
    \/ \E k \in RaceIds : \E i \in ItemsOf(k) : ItemSaved(k, i)
    \/ \E k \in RaceIds : \E i \in ItemsOf(k) : ItemAnalysisFails(k, i)
    \/ \E k \in RaceIds : \E i \in ItemsOf(k) : ItemSaveFails(k, i)
    \/ \E k \in RaceIds : ScanFinish(k)

SpecRace == InitRace /\ [][NextRace]_vars

InitFeeds ==
    /\ documents = << >>
    /\ scan = [k \in ScanIds |-> IdleScan]
    /\ adhoc = IdleAdhoc
    /\ clock = 0
    /\ \/ urls = BadThenGood /\ svc \in SameResponse
       \/ urls = ManyEmpty /\ svc = [l \in Links |-> {OkArticle}]
    /\ mgmt = IdleMgmt
    /\ cron = IdleCron

\* cron runs one after the other over a fixed urls collection
NextFeeds ==
    \/ CronStart
    \/ CronLoadFails
    \/ \E k \in FeedsIds : FeedFails(k)
    \/ \E k \in FeedsIds : FeedParsed(k)
    \/ \E k \in FeedsIds : \E i \in ItemsOf(k) : ItemTimer(k, i)
    \/ \E k \in FeedsIds : \E i \in ItemsOf(k) : \E r \in ScanResponses :
          ItemResponse(k, i, r)
    \/ \E k \in FeedsIds : \E i \in ItemsOf(k) : ItemSaved(k, i)
    \/ \E k \in FeedsIds : \E i \in ItemsOf(k) : ItemAnalysisFails(k, i)
    \/ \E k \in FeedsIds : \E i \in ItemsOf(k) : ItemSaveFails(k, i)
    \/ \E k \in FeedsIds : ScanFinish(k)
    \/ CronFinish

SpecFeeds == InitFeeds /\ [][NextFeeds]_vars

\* every step but the start of a round: a pending feed fetch, extraction call,
\* store call or timer settles, or code that became runnable runs
Settles ==
    \/ \E k \in FeedsIds : FeedFails(k) \/ FeedParsed(k) \/ ScanFinish(k)
    \/ \E k \in FeedsIds : \E i \in ItemsOf(k) :
          \/ ItemTimer(k, i)
          \/ \E r \in ScanResponses : ItemResponse(k, i, r)
          \/ ItemSaved(k, i) \/ ItemAnalysisFails(k, i) \/ ItemSaveFails(k, i)
    \/ CronFinish

\* the same rounds with every pending call settling and the event loop
\* running what is runnable
SpecLive == InitFeeds /\ [][NextFeeds]_vars /\ WF_vars(Settles)

\* scans of the long feed one after the other, extraction succeeding
InitStagger ==
    /\ documents = << >>
    /\ scan = [k \in ScanIds |-> IdleScan]
    /\ adhoc = IdleAdhoc
    /\ clock = 0
    /\ urls = << >>
    /\ svc = [l \in Links |-> {OkArticle}]
    /\ mgmt = IdleMgmt
    /\ cron = IdleCron

NextStagger ==
    \/ ScanStart("auto", LongSource)
    \/ FeedFails("auto")
    \/ FeedParsed("auto")
    \/ \E i \in ItemsOf("auto") : ItemTimer("auto", i)
    \/ \E i \in ItemsOf("auto") : ItemResponse("auto", i, OkArticle)
    \/ \E i \in ItemsOf("auto") : ItemSaved("auto", i)
    \/ \E i \in ItemsOf("auto") : ItemAnalysisFails("auto", i)
    \/ \E i \in ItemsOf("auto") : ItemSaveFails("auto", i)
    \/ ScanFinish("auto")

SpecStagger == InitStagger /\ [][NextStagger]_vars

\* cron runs over two sources that share an article, extraction succeeding
InitOrder ==
    /\ documents = << >>
    /\ scan = [k \in ScanIds |-> IdleScan]
    /\ adhoc = IdleAdhoc
    /\ clock = 0
    /\ urls = SharedArticle
    /\ svc = [l \in Links |-> {OkArticle}]
    /\ mgmt = IdleMgmt
    /\ cron = IdleCron

SpecOrder == InitOrder /\ [][NextFeeds]_vars

\* what the requests of the source-management pages carry
AddUrls == {"http://feedA", "http://feedB", UntitledSource, ApiUrl, "not a url", NoUrl}

EditUrls == {"http://feedB", "http://feedE", "not a url", NoUrl}

Names == {"", "renamed"}

\* ids of the stored sources and one that matches nothing
SourceIds == {1, 2, 9}

InitSources ==
    /\ documents = << >>
    /\ scan = [k \in ScanIds |-> IdleScan]
    /\ adhoc = IdleAdhoc
    /\ clock = 0
    /\ svc = [l \in Links |-> {OkArticle, NetErr}]
    /\ urls = SeedSources
    /\ mgmt = IdleMgmt
    /\ cron = IdleCron

\* source-management requests one after the other, with the scans they start
NextSources ==
    \/ \E u \in AddUrls : \E n \in Names : AddStart(u, n)
    \/ AddFeedFails
    \/ AddFeedParsed
    \/ AddStored
    \/ AddStoreFails
    \/ \E u \in AddUrls : AddUrl(u)
    \/ \E id \in SourceIds : \E u \in EditUrls : \E n \in Names : EditStart(id, u, n)
    \/ EditUpdated
    \/ \E id \in SourceIds : DeleteSource(id)
    \/ \E id \in SourceIds : DeleteFails(id)
    \/ \E id \in SourceIds : RefreshStart(id)
    \/ RefreshScanned
    \/ StoreRejects
    \/ \E k \in RaceIds : FeedFails(k)
    \/ \E k \in RaceIds : FeedParsed(k)
    \/ \E k \in RaceIds : \E i \in ItemsOf(k) : ItemTimer(k, i)
    \/ \E k \in RaceIds : \E i \in ItemsOf(k) : \E r \in ScanResponses :
          ItemResponse(k, i, r)
    \/ \E k \in RaceIds : \E i \in ItemsOf(k) : ItemSaved(k, i)
    \/ \E k \in RaceIds : \E i \in ItemsOf(k) : ItemAnalysisFails(k, i)
    \/ \E k \in RaceIds : \E i \in ItemsOf(k) : ItemSaveFails(k, i)
    \/ \E k \in RaceIds : ScanFinish(k)

SpecSources == InitSources /\ [][NextSources]_vars

---------------------------------------------------------------------------
(* Claims *)

CouldNotRun(k) == ~ValidUrl(scan[k].source) \/ scan[k].parsed = "failed"

\* C1: the promise of scanSingleSource is never rejected, whatever the source
\* url and whatever the extraction, analysis and storage outcomes; once
\* resolved it carries source, scanned and total, and carries error exactly
\* when the scan could not run (malformed url, feed not fetched or parsed).
C1_NeverRejects ==
    \A k \in ScanIds :
        /\ scan[k].pc # "rejected"
        /\ scan[k].pc = "resolved" =>
              /\ {"source", "scanned", "total"} \subseteq DOMAIN scan[k].result
              /\ scan[k].result.source = scan[k].source
              /\ Has(scan[k].result, "error") <=> CouldNotRun(k)

\* a scan that resolved although both attempts of an item got an article and
\* parseAndSaveResponse rejected both times
C1_Witness ==
    /\ scan["auto"].pc = "resolved"
    /\ \E i \in ItemsOf("auto") :
          /\ scan["auto"].items[i].rejects = 2
          /\ scan["auto"].items[i].hist = << OkArticle, OkArticle >>
    /\ scan["auto"].result.scanned = 0

\* C2: an item with a link gets at least 1 and at most 2 extraction requests,
\* whatever the responses; an item without a link gets none and is counted as
\* failed.
C2_AttemptBounds ==
    \A k \in ScanIds : \A i \in ItemsOf(k) :
        LET it == scan[k].items[i]
            fi == scan[k].feed[i] IN
        /\ it.reqs <= 2
        /\ fi.link # NoLink /\ it.pc # "stagger" => it.reqs >= 1
        /\ fi.link = NoLink => it.reqs = 0 /\ it.pc = "done" /\ ~it.ret
        /\ fi.link = NoLink /\ scan[k].pc = "resolved" =>
              scan[k].result.failed >= 1 /\ scan[k].result.scanned < Len(scan[k].feed)

\* a resolved scan whose linked item used both attempts beside a linkless item
C2_Witness ==
    /\ scan["auto"].pc = "resolved"
    /\ \E i, j \in ItemsOf("auto") :
          /\ scan["auto"].feed[i].link # NoLink
          /\ scan["auto"].items[i].reqs = 2
          /\ scan["auto"].feed[j].link = NoLink
          /\ scan["auto"].items[j].reqs = 0
    /\ scan["auto"].result.failed = 2

Transient(r) == r.kind = "error" \/ r.status >= 500 \/ r.status = 429

Denied(r) == (r.status >= 400 /\ r.status <= 499 /\ r.status # 429) \/ r = OkEmpty

\* C3: a second extraction request is issued only after a first attempt that
\* ended with 5xx, 429 or a timeout; after 401/403, another 4xx or 2xx with
\* empty content the item gets exactly one request.
C3_RetryOnlyTransient ==
    \A k \in ScanIds : \A i \in ItemsOf(k) :
        LET it == scan[k].items[i] IN
        /\ it.reqs >= 2 => Transient(it.hist[1])
        /\ Len(it.hist) >= 1 /\ Denied(it.hist[1]) => it.reqs = 1

UniqueUrls ==
    \A n, m \in 1..Len(documents) :
        documents[n]["url"] = documents[m]["url"] => n = m

\* C4: the documents collection holds at most one Article per url after any
\* sequence of source scans and ad-hoc scans.
C4_OneArticlePerUrl == UniqueUrls

\* a source scan and an ad-hoc scan both stored the same url, the source scan
\* last, and the collection holds one document
C4_Witness ==
    /\ scan["auto"].pc = "resolved"
    /\ scan["auto"].result.scanned = 1
    /\ adhoc.promise = "resolved"
    /\ adhoc.url = "http://x/a"
    /\ Len(documents) = 1
    /\ Has(documents[1], "origin")

StripDate(d) == Drop(d, "date")

DocSet == { StripDate(documents[n]) : n \in 1..Len(documents) }

\* the Article one scan of the source stores for a feed item
ExpectedDoc(fi, src) ==
    StripDate(Analysed(Annotated(ExtractedJson(fi.link), fi, src), 0))

Extractable(src) ==
    { i \in 1..Len(Feed(src)) :
        Feed(src)[i].link # NoLink /\ svc[Feed(src)[i].link] = {OkArticle} }

\* the collection a single scan of the source produces when nothing rejects
SingleScanDocs(src) == { ExpectedDoc(Feed(src)[i], src) : i \in Extractable(src) }

RaceQuiet == \A k \in RaceIds : scan[k].pc = "resolved"

NoStoreTrouble ==
    \A k \in RaceIds :
        /\ scan[k].parsed = "ok"
        /\ \A i \in ItemsOf(k) : scan[k].items[i].rejects = 0

\* C5: when a manual and an automatic scan of the same source run on the
\* same feed with the same extraction results, then after both resolved the
\* collection has one Article per url, holds only Articles a single scan
\* stores, holds the Article of every item some scan stored, and equals the
\* single-scan collection (timestamps aside) when no feed fetch, analysis or
\* upsert failed.
C5_ConcurrentScansAgree ==
    RaceQuiet =>
        /\ UniqueUrls
        /\ DocSet \subseteq SingleScanDocs(RaceSource)
        /\ \A k \in ScanIds : \A i \in ItemsOf(k) :
              scan[k].items[i].saved =>
                  ExpectedDoc(scan[k].feed[i], RaceSource) \in DocSet
        /\ NoStoreTrouble => DocSet = SingleScanDocs(RaceSource)

\* both scans ran at the same time and both stored both articles
C5_Witness ==
    /\ RaceQuiet
    /\ scan["manual"].overlapped
    /\ scan["auto"].result.scanned = 2
    /\ scan["manual"].result.scanned = 2
    /\ Len(documents) = 2

Upserted(k) == { i \in ItemsOf(k) : scan[k].items[i].saved }

C7_OneCounterPerFailure ==
    \A k \in ScanIds :
        scan[k].pc = "resolved" =>
            \A i \in ItemsOf(k) :
                LET it == scan[k].items[i] IN
                /\ it.reqs >= 1 /\ ~it.ret => it.counted = 1
                /\ it.ret => it.counted = 0

\* C8: first attempt 429, retry 200 with content (and parseAndSaveResponse
\* does not reject): the item returns true, its Article is in the collection,
\* the scan counts it, and exactly 2 requests were made.
C8_RateLimitedThenOk ==
    \A k \in ScanIds : \A i \in ItemsOf(k) :
        LET it == scan[k].items[i] IN
        Len(it.hist) >= 1 /\ it.hist[1].status = 429 /\ it.pc = "done" =>
            /\ it.reqs = 2
            /\ it.hist[2] = OkArticle /\ it.rejects = 0 =>
                  /\ it.ret /\ it.saved
                  /\ Matching(documents, scan[k].feed[i].link) # {}
                  /\ scan[k].pc = "resolved" => scan[k].result.scanned >= 1

\* a resolved scan that stored an item after 429 and then 200 with content
C8_Witness ==
    /\ scan["auto"].pc = "resolved"
    /\ \E i \in ItemsOf("auto") :
          /\ scan["auto"].items[i].hist = << Http(429, "text", 0), OkArticle >>
          /\ scan["auto"].items[i].ret
    /\ scan["auto"].result.scanned = 1
    /\ Len(documents) = 1

\* C9: a scan whose url is malformed or whose feed could not be fetched or
\* parsed resolves with total 0, scanned 0 and an error, makes no extraction
\* request and stores nothing; for a malformed url the feed is not fetched.
C9_NoScanWithoutFeed ==
    \A k \in ScanIds :
        scan[k].pc = "resolved" /\ CouldNotRun(k) =>
            /\ scan[k].result.total = 0
            /\ scan[k].result.scanned = 0
            /\ Has(scan[k].result, "error")
            /\ \A i \in ItemsOf(k) : scan[k].items[i].reqs = 0 /\ ~scan[k].items[i].saved
            /\ ~ValidUrl(scan[k].source) => scan[k].fetches = 0

\* a malformed url resolved with its error while the collection kept the
\* Article an earlier scan had stored
C9_Witness ==
    /\ scan["auto"].pc = "resolved"
    /\ scan["auto"].source = "not a url"
    /\ scan["auto"].result.error = "Invalid URL format"
    /\ scan["auto"].fetches = 0
    /\ Len(documents) = 1

\* the documents whose replaceOne is pending
SavingJsons ==
    UNION { { scan[k].items[i].json :
                i \in { j \in ItemsOf(k) : scan[k].items[j].pc = "saving" } } :
            k \in ScanIds }
      \cup (IF adhoc.pc = "saving" /\ adhoc.json # NoJson THEN {adhoc.json} ELSE {})

\* C10: storing an Article whose url already exists replaces the whole
\* document: after every step that changes the collection, the document
\* stored under the written url is exactly the json that was being saved, so
\* no field of the old document (origin, title, publication date) survives
\* unless the new json carries it.
C10_ReplaceWhole ==
    [][ documents' # documents =>
          \E j \in SavingJsons :
              /\ \E n \in 1..Len(documents') : documents'[n] = j
              /\ \A n \in 1..Len(documents') :
                    documents'[n]["url"] = j["url"] => documents'[n] = j
              /\ \A n \in 1..Len(documents') :
                    documents'[n]["url"] # j["url"] =>
                        \E m \in 1..Len(documents) : documents[m] = documents'[n]
      ]_vars

\* a source scan stored an Article with origin, title and publication date,
\* then an ad-hoc scan of the same url stored over it
C10_Witness ==
    /\ scan["auto"].pc = "resolved"
    /\ scan["auto"].result.scanned = 1
    /\ adhoc.promise = "resolved"
    /\ adhoc.url = "http://x/a"
    /\ Len(documents) = 1
    /\ DOMAIN documents[1] \cap {"origin", "title", "publication date"} = {}

StripDates(coll) == [ n \in 1..Len(coll) |-> StripDate(coll[n]) ]

\* countDocuments({ origin: source.url }) of getSources
articleCount(coll, src) ==
    Cardinality({ n \in 1..Len(coll) : Has(coll[n], "origin") /\ coll[n]["origin"] = src })

Last(h) == h[Len(h)]

\* item i of scan k returns true in this step, its replaceOne having resolved
Stores(k, i) ==
    /\ scan[k].items[i].pc = "saving"
    /\ scan'[k].pc = "items"
    /\ scan'[k].items[i].pc = "done"
    /\ scan'[k].items[i].ret

\* item i of scan k ends as failed in this step
Fails(k, i) ==
    /\ scan[k].pc = "items"
    /\ scan[k].items[i].pc # "done"
    /\ scan'[k].pc = "items"
    /\ scan'[k].items[i].pc = "done"
    /\ ~scan'[k].items[i].ret

\* C12: an Article is written only by an item whose extraction returned 2xx
\* with content and whose analysis and upsert went through (or by /scan); an
\* item that ends as failed writes nothing, so the Article already stored
\* under its url stays as it was; no step removes an Article.
C12_WrittenOnlyOnSuccess ==
    [][ /\ documents' # documents =>
              /\ \/ \E k \in ScanIds : \E i \in ItemsOf(k) :
                       /\ Stores(k, i)
                       /\ IsOk(Last(scan[k].items[i].hist))
                       /\ Last(scan[k].items[i].hist).body \in {"article", "blank"}
                       /\ scan[k].items[i].json["content"] # ""
                 \/ adhoc.pc = "saving" /\ adhoc'.promise = "resolved"
              /\ Len(documents') >= Len(documents)
              /\ \A n \in 1..Len(documents) : \E m \in 1..Len(documents') :
                    documents'[m]["url"] = documents[n]["url"]
        /\ \A k \in ScanIds : \A i \in ItemsOf(k) :
              Fails(k, i) => documents' = documents
        /\ \A k \in ScanIds : \A i \in 1..Len(scan'[k].items) :
              scan'[k].items[i].pc = "done" /\ ~scan'[k].items[i].ret =>
                  ~scan'[k].items[i].saved
      ]_vars

\* a second scan of the source failed on the item after two attempts and the
\* Article the first scan stored is still there with the first scan's date
C12_Witness ==
    /\ clock = 2
    /\ scan["auto"].pc = "resolved"
    /\ scan["auto"].source = "http://feedA"
    /\ scan["auto"].result.scanned = 0
    /\ \E i \in ItemsOf("auto") : scan["auto"].items[i].reqs = 2
    /\ Len(documents) = 1
    /\ Has(documents[1], "origin")
    /\ documents[1]["origin"] = "http://feedA"
    /\ documents[1]["date"] = 1

NaNScores(d) == Has(d, "Flesch") /\ d["Flesch"] = "NaN"

\* C13: non-empty content whose cleaned text has zero words or sentences
\* makes the analysis fail: no document with NaN or infinite scores enters
\* the collection, and the item is counted as failed.
C13_NoContentRejected ==
    /\ \A n \in 1..Len(documents) : ~NaNScores(documents[n])
    /\ \A k \in ScanIds : \A i \in ItemsOf(k) :
          LET it == scan[k].items[i] IN
          it.pc = "done" /\ Len(it.hist) >= 1 /\ Last(it.hist) = OkBlank => ~it.ret

\* C14: a scanFeeds run calls scanSingleSource exactly once for every url it
\* loaded, whatever happens to the other urls (malformed url, feed error,
\* failing items); when the run has returned every one of these scans has
\* resolved with all its items finished, and scanFeeds itself never throws.
C14_EverySourceScannedOnce ==
    /\ ~cron.threw
    /\ cron.pc \in {"scanning", "done"} /\ cron.loaded =>
          /\ cron.urlList = urlListOf(urls)
          /\ \A k \in FeedsIds \ Entries : scan[k].pc = "idle"
          /\ \A i \in 1..Len(cron.urlList) :
                LET sc == scan[FeedsId(i)] IN
                /\ sc.pc # "idle"
                /\ sc.source = cron.urlList[i]
                /\ sc.fetches = IF ValidUrl(sc.source) THEN 1 ELSE 0
                /\ cron.pc = "done" =>
                      /\ sc.pc = "resolved"
                      /\ sc.parsed = "ok" =>
                            /\ Len(sc.items) = Len(Feed(sc.source))
                            /\ \A j \in 1..Len(sc.items) : sc.items[j].pc = "done"

\* a run that returned after a malformed url and a source of which one item
\* was stored and two failed
C14_Witness ==
    /\ cron.pc = "done" /\ cron.runs = 1 /\ cron.loaded
    /\ urls = BadThenGood
    /\ scan[FeedsId(1)].result.error = "Invalid URL format"
    /\ scan[FeedsId(2)].parsed = "ok"
    /\ scan[FeedsId(2)].result.scanned = 1
    /\ scan[FeedsId(2)].result.failed = 2
    /\ Len(documents) = 1

\* the sources being scanned: scanSingleSource called, its promise pending
ScansRunning == { k \in ScanIds : Running(k) }

\* C15: during a scan of all sources the number of sources scanned at the
\* same time never exceeds the fixed maximum (5), however many sources are
\* configured.
C15_BoundedConcurrency == Cardinality(ScansRunning) <= MaxConcurrentScans

\* C16: when the upsert of an item fails, that item ends as failed there and
\* then: the step in which the rejection is seen finishes the item with false
\* (no new extraction request, no second upsert), while the other items and
\* the scan go on.
C16_StoreFailureFinal ==
    [][ \A k \in ScanIds : \A i \in ItemsOf(k) :
            ItemSaveFails(k, i) =>
                /\ scan'[k].items[i].pc = "done"
                /\ ~scan'[k].items[i].ret
                /\ \A j \in ItemsOf(k) \ {i} : scan'[k].items[j] = scan[k].items[j]
      ]_vars

\* the step is the write of an add or an edit
WritesSource == mgmt.pc \in {"storing", "updating"} \/ mgmt'.op = "add-url"

\* C17: adding or editing a Source whose url is already stored keeps its
\* dateAdded and sets lastModified to the time of the change: every add or
\* edit step that changes a stored Source leaves its dateAdded as it was and
\* its lastModified at the current time.
C17_DateAddedKept ==
    [][ WritesSource =>
            \A n \in 1..Len(urls) : \A m \in 1..Len(urls') :
                urls'[m]["_id"] = urls[n]["_id"] /\ urls'[m] # urls[n] =>
                    /\ Has(urls[n], "dateAdded") =>
                          /\ Has(urls'[m], "dateAdded")
                          /\ urls'[m]["dateAdded"] = urls[n]["dateAdded"]
                    /\ Has(urls'[m], "lastModified")
                    /\ urls'[m]["lastModified"] = clock'
      ]_vars

UniqueSources ==
    \A n, m \in 1..Len(urls) : urls[n]["url"] = urls[m]["url"] => n = m

\* C18: the sources collection is keyed by url: after any sequence of
\* addSource, add-url, editSource and deleteSource no two Sources have the
\* same url.
C18_OneSourcePerUrl == UniqueSources

\* the Sources the step inserted or replaced
Added == { m \in 1..Len(urls') : \A n \in 1..Len(urls) : urls[n] # urls'[m] }

\* C19: a Source is created only after feed-format validation: an add step
\* (addSource or /add-url) stores only a well-formed url whose feed parsed
\* with a title, and an add answered with an error changes no Source and
\* starts no scan.
C19_AddValidates ==
    [][ /\ mgmt'.op \in {"add", "add-url"} =>
              \A m \in Added :
                  /\ ValidUrl(urls'[m]["url"])
                  /\ FeedTitle(urls'[m]["url"]) # ""
                  /\ mgmt.pc = "storing"
        /\ mgmt'.op \in {"add", "add-url"} /\ mgmt'.pc = "done" /\ mgmt'.status >= 400 =>
              urls' = urls /\ scan' = scan
      ]_vars

\* C20: after every completed scan of a registered source, started by a
\* manual refresh or by the cron job, the source's lastRefreshed is set: once
\* a scanFeeds run has returned, every Source it scanned carries
\* lastRefreshed; and lastRefreshed is written only by a request whose scan
\* has resolved.
C20_LastRefreshedSet ==
    /\ cron.pc = "done" /\ cron.loaded =>
          \A i \in 1..Len(cron.urlList) : \A n \in Matching(urls, cron.urlList[i]) :
              scan[FeedsId(i)].pc = "resolved" => Has(urls[n], "lastRefreshed")
    /\ \A n \in 1..Len(urls) :
          Has(urls[n], "lastRefreshed") =>
              \E k \in ScanIds : scan[k].pc = "resolved" /\ scan[k].source = urls[n]["url"]

\* C21: a manual refresh answers only after its scan resolved, with the
\* scan's scanned and total and failed = total - scanned, and reports a scan
\* that ended with a top-level error (feed not fetched or parsed) as a
\* failure, not as a success with zero counts.
C21_RefreshSurfacesResult ==
    mgmt.op = "refresh" /\ mgmt.pc = "done" /\ mgmt.status = 200 =>
        /\ scan["manual"].pc = "resolved"
        /\ mgmt.body.scanned = scan["manual"].result.scanned
        /\ mgmt.body.total = scan["manual"].result.total
        /\ mgmt.body.failed = mgmt.body.total - mgmt.body.scanned
        /\ Has(scan["manual"].result, "error") => ~mgmt.body.success

\* the fixed familiar-word list, and the words of a cleaned text not on it
familiarWords == {"text"}
difficultWords(text) == IF text = "" \/ text \in familiarWords THEN 0 ELSE 1

\* C22: the Dale-Chall and Spache scores stored with an Article include the
\* difficult-word term: two stored texts with equal word and sentence counts
\* but different numbers of unfamiliar words have different scores.
C22_DifficultWordsCounted ==
    \A i, j \in DOMAIN documents :
        /\ documents[i]["words"] = documents[j]["words"]
        /\ documents[i]["sentences"] = documents[j]["sentences"]
        /\ documents[i]["words"] > 0
        /\ difficultWords(documents[i]["Cleaned Data"])
             # difficultWords(documents[j]["Cleaned Data"])
        => /\ documents[i]["Dale Chall"] # documents[j]["Dale Chall"]
           /\ documents[i]["Spache"] # documents[j]["Spache"]

\* the first attempt ended with HTTP 5xx or with a timeout / network error
FirstTransient(h) == Len(h) >= 1 /\ (h[1].kind = "error" \/ h[1].status >= 500)

\* C23: when an item's first attempt ends with HTTP 5xx or a timeout/network
\* error, exactly one second attempt is issued; it starts only after the first
\* failure was observed and a backoff of 1000 ms x 1 has elapsed, and if it
\* returns 2xx with content (and the store takes it) the item has succeeded
\* and is in no failure counter.
C23_TransientRetriedOnce ==
    [][\A i \in ItemsOf("auto") :
         LET it == scan["auto"].items[i] IN
         /\ i \in 1..Len(scan'["auto"].items) /\ it.reqs = 1
              /\ scan'["auto"].items[i].reqs # 1 /\ FirstTransient(it.hist)
            => /\ it.pc = "backoff" /\ it.wait = BackoffMs * 1
               /\ Len(it.hist) = 1
               /\ scan'["auto"].items[i].reqs = 2
         /\ it.pc = "done" /\ FirstTransient(it.hist)
            => /\ it.reqs = 2 /\ Len(it.hist) = 2
               /\ it.hist[2] = OkArticle /\ it.rejects = 0
                  => it.ret /\ it.saved /\ it.counted = 0]_vars

\* a 500 on the first attempt, a second attempt stored: a success, not counted
C23_Witness ==
    \E i \in ItemsOf("auto") :
        LET it == scan["auto"].items[i] IN
        /\ it.pc = "done" /\ it.hist = << Http(500, "text", 0), OkArticle >>
        /\ it.ret /\ it.counted = 0 /\ it.reqs = 2

\* C24: after an HTTP 429 on an item's first attempt the scanner waits the
\* seconds of the Retry-After header when one is present, and otherwise a
\* non-zero backoff, before it issues the second attempt.
C24_RateLimitWait ==
    [][\A i \in ItemsOf("auto") :
         LET it == scan["auto"].items[i] IN
         /\ i \in 1..Len(scan'["auto"].items) /\ it.reqs = 1
         /\ scan'["auto"].items[i].reqs = 2
         /\ Len(it.hist) = 1 /\ it.hist[1].status = 429
         => /\ it.pc = "backoff"
            /\ IF it.hist[1].retryAfter # 0
               THEN it.wait = it.hist[1].retryAfter * MsPerSec
               ELSE it.wait > 0]_vars

\* every linked item of every scan of the run stored its Article
AllStored ==
    \A k \in Entries : \A i \in ItemsOf(k) :
        scan[k].feed[i].link # NoLink => scan[k].items[i].saved

\* C25: the final documents collection after scanning two different sources
\* does not depend on the order or interleaving in which the sources and
\* their items are processed, also when both feeds list the same article url:
\* two complete rounds over the same two sources, each storing every Article,
\* end with the same collection (origin included), however each interleaved.
C25_OrderIndependent ==
    /\ cron.pc = "done" /\ cron.runs >= 2 /\ cron.prevClean /\ cron.clean
    /\ Len(cron.urlList) = 2 /\ AllStored
    => StripDates(documents) = StripDates(cron.before)

\* C26: within one scan the item at feed index i issues its first extraction
\* request no earlier than 100 ms x floor(i / 5) after item processing started
\* (items 0 to 4 with no delay): when the items are fanned out, item 0 has its
\* request out and every later linked item holds a timer of that length, and
\* its first request is issued by that timer alone, whatever the other items
\* are doing.
C26_Stagger ==
    [][\A i \in 1..Len(scan'["auto"].items) :
         LET it == scan'["auto"].items[i]
             linked == scan'["auto"].feed[i].link # NoLink IN
         /\ scan["auto"].pc = "parsing" /\ linked
            => IF i - 1 = 0 THEN it.pc = "inflight" /\ it.reqs = 1
               ELSE /\ it.pc = "stagger" /\ it.reqs = 0
                    /\ it.wait = StaggerMs * ((i - 1) \div StaggerBatch)
         /\ it.pc = "stagger"
            => /\ it.reqs = 0
               /\ it.wait = StaggerMs * ((i - 1) \div StaggerBatch)
               /\ i - 1 < StaggerBatch => it.wait = 0
         /\ i \in ItemsOf("auto") /\ scan["auto"].items[i].reqs = 0
              /\ it.reqs > 0
            => scan["auto"].items[i].pc = "stagger" /\ it.reqs = 1]_vars

\* every linked item of the long feed has its first request in flight at the
\* same time, the one at index 5 after its 100 ms timer
C26_Witness ==
    /\ scan["auto"].source = LongSource /\ scan["auto"].pc = "items"
    /\ \A i \in ItemsOf("auto") :
          scan["auto"].feed[i].link # NoLink =>
              scan["auto"].items[i].pc = "inflight" /\ scan["auto"].items[i].reqs = 1

\* C27: provided every feed fetch and every extraction call returns or times
\* out and every store call settles, each scanSingleSource call eventually
\* resolves and a scanFeeds round ends: a scan runs only inside a round, a
\* round that is waiting leads to one that has ended with every scan it
\* called resolved, and no item makes more than two attempts.
C27_ScanResolves ==
    /\ cron.pc = "scanning"
          ~> (cron.pc = "done" /\ \A k \in Entries : scan[k].pc = "resolved")
    /\ [](\A k \in FeedsIds :
             Running(k) => cron.pc = "scanning" /\ k \in Entries)
    /\ [](\A k \in FeedsIds : \A i \in ItemsOf(k) :
             scan[k].items[i].reqs <= maxAttempts)

\* a round ended whose scan had an item that used both attempts and failed
C27_Witness ==
    /\ cron.pc = "done" /\ cron.loaded
    /\ \E k \in Entries :
          /\ scan[k].pc = "resolved"
          /\ \E i \in ItemsOf(k) :
                /\ scan[k].items[i].reqs = maxAttempts
                /\ ~scan[k].items[i].ret

\* the HTTP status of a response is 2xx
Status2xx(r) == r.kind = "http" /\ r.status \div 100 = 2

C29_OneResponse ==
    /\ adhoc.sends <= 1
    /\ adhoc.url = NoUrl /\ adhoc.pc # "idle"
       => adhoc.status = 404 /\ adhoc.pc = "done"

\* C30: every /scan request eventually receives an HTTP response and the
\* promise returned by scanUrl eventually settles, also when the extraction
\* call fails and when the analysis or the upsert inside parseAndSaveResponse
\* fails: a request whose last callback has run has been answered and its
\* promise is settled.
C30_ScanUrlSettles ==
    adhoc.pc = "done" => adhoc.sends >= 1 /\ adhoc.promise # "pending"

====
